---- MODULE Spec2Model ----
(***************************************************************************)
(* A model of traffic_stop_analysis.py: the two aggregation helpers        *)
(* (compute_outcome_stats, compute_search_stats), the group-by driver, the *)
(* county comparison (generate_comparison_scatter) and the per-state       *)
(* driver (analyze_state_data) with the module-level sequence of calls.    *)
(*                                                                         *)
(* A DataFrame is a sequence of blocks; a block [row |-> r, n |-> k] is k  *)
(* consecutive rows equal to r.  A float is kept as the exact ratio        *)
(* [kind |-> "float", num, den]; None/NaN is [kind |-> "None"].  The text  *)
(* of a stop_outcome is kept as the sequence of its words, so that a whole *)
(* string and a prefix of it are different values.  The columns of a row   *)
(* that hold no value (NaN) are listed in its field na.                    *)
(***************************************************************************)
EXTENDS Integers, Sequences, FiniteSets, TLC

VARIABLES
    df,      \* the DataFrame the next call works on
    pc,      \* position of the script
    ret,     \* what the last call returned, or the exception it raised
    files,   \* per state: the content of ./data/<state>-clean.csv.gz
    tables   \* per state: the table analyze_state_data returned

vars == <<df, pc, ret, files, tables>>

----------------------------------------------------------------------------
(* Bounds of the model *)

MaxHits == 3
MaxMisses == 3
MaxStray == 1
MaxPlain == 54
MaxCount == 3
MaxRows == 2

----------------------------------------------------------------------------
(* Values *)

None == [kind |-> "None"]

NoCall == [kind |-> "nothing"]

Float(a, b) == [kind |-> "float", num |-> a, den |-> b]

Raise(e) == [kind |-> "raise", exc |-> e]

IsFloat(v) == v.kind = "float"

\* equality of two floats as exact ratios
RatEq(x, y) == IsFloat(x) /\ IsFloat(y) /\ x.num * y.den = y.num * x.den

\* a / b on Python ints: a float, or ZeroDivisionError
TrueDiv(a, b) == IF b = 0 THEN Raise("ZeroDivisionError") ELSE Float(a, b)

----------------------------------------------------------------------------
(* Rows and DataFrames *)

Row0 ==
    [county_fips |-> "A", driver_race |-> "White", driver_gender |-> "M",
     driver_age |-> 30, violation |-> "Speeding",
     stop_outcome |-> <<"Citation">>, search_conducted |-> FALSE,
     contraband_found |-> FALSE, search_type |-> "N/A", na |-> {}]

Block(r, k) == [row |-> r, n |-> k]

\* k copies of r, nothing when k = 0
Rows(r, k) == IF k = 0 THEN <<>> ELSE <<Block(r, k)>>

RECURSIVE NRows(_)
\* len(df)
NRows(d) == IF d = <<>> THEN 0 ELSE Head(d).n + NRows(Tail(d))

RECURSIVE SumColumn(_, _)
\* sum(df[col]) of a bool column: True counts 1, False 0
SumColumn(d, col) ==
    IF d = <<>> THEN 0
    ELSE (IF Head(d).row[col] THEN Head(d).n ELSE 0) + SumColumn(Tail(d), col)

\* df[df[col] == value]
WhereEq(d, col, value) == SelectSeq(d, LAMBDA b : b.row[col] = value)

\* df[df[col] != value]
WhereNe(d, col, value) == SelectSeq(d, LAMBDA b : b.row[col] # value)

----------------------------------------------------------------------------
(* compute_search_stats *)

MinStops == 50

MinSearches == 5

compute_search_stats_lax(d) ==
    LET n_stops == NRows(d)
        n_searches == SumColumn(d, "search_conducted")
        n_hits == SumColumn(d, "contraband_found")
        search_rate == IF n_stops <= MinStops THEN None
                       ELSE TrueDiv(n_searches, n_stops)
        hit_rate == IF n_searches <= MinSearches THEN None
                    ELSE TrueDiv(n_hits, n_searches)
    IN  [kind |-> "Series", n_stops |-> n_stops, n_searches |-> n_searches,
         n_hits |-> n_hits, search_rate |-> search_rate,
         hit_rate |-> hit_rate]

compute_search_stats_unguarded(d) ==
    LET n_stops == NRows(d)
        n_searches == SumColumn(d, "search_conducted")
        n_hits == SumColumn(d, "contraband_found")
        search_rate == TrueDiv(n_searches, n_stops)
        hit_rate == TrueDiv(n_hits, n_searches)
    IN  IF search_rate.kind = "raise" THEN search_rate
        ELSE IF hit_rate.kind = "raise" THEN hit_rate
        ELSE [kind |-> "Series", n_stops |-> n_stops,
              n_searches |-> n_searches, n_hits |-> n_hits,
              search_rate |-> search_rate, hit_rate |-> hit_rate]

compute_search_stats_coupled(d) ==
    LET n_stops == NRows(d)
        n_searches == SumColumn(d, "search_conducted")
        n_hits == SumColumn(d, "contraband_found")
        search_rate == IF n_stops < MinStops THEN None
                       ELSE TrueDiv(n_searches, n_stops)
        hit_rate == IF n_stops < MinStops \/ n_searches < MinSearches
                    THEN None
                    ELSE TrueDiv(n_hits, n_searches)
    IN  [kind |-> "Series", n_stops |-> n_stops, n_searches |-> n_searches,
         n_hits |-> n_hits, search_rate |-> search_rate,
         hit_rate |-> hit_rate]

compute_search_stats(d) ==
    LET search_conducted == "search_conducted"
        contraband_found == "contraband_found"
        n_stops == NRows(d)
        n_searches == SumColumn(d, search_conducted)
        n_hits == SumColumn(d, contraband_found)
        search_rate == IF n_stops < MinStops THEN None
                       ELSE TrueDiv(n_searches, n_stops)
        hit_rate == IF n_searches < MinSearches THEN None
                    ELSE TrueDiv(n_hits, n_searches)
    IN  IF search_rate.kind = "raise" THEN search_rate
        ELSE IF hit_rate.kind = "raise" THEN hit_rate
        ELSE [kind |-> "Series", n_stops |-> n_stops,
              n_searches |-> n_searches, n_hits |-> n_hits,
              search_rate |-> search_rate, hit_rate |-> hit_rate]

----------------------------------------------------------------------------
(* Calls of compute_search_stats on one DataFrame *)

SearchRow(sc, cf) ==
    [Row0 EXCEPT !.search_conducted = sc, !.contraband_found = cf]

\* the DataFrames of the search specification: h searches that found
\* contraband, m that did not, s rows with contraband_found set and no
\* search, p rows with neither
SearchFrame(h, m, s, p) ==
    Rows(SearchRow(TRUE, TRUE), h) \o Rows(SearchRow(TRUE, FALSE), m)
        \o Rows(SearchRow(FALSE, TRUE), s) \o Rows(SearchRow(FALSE, FALSE), p)

NoFiles == [s \in {} |-> NoCall]

NoTables == [s \in {} |-> NoCall]

InitSearch ==
    /\ \E h \in 0..MaxHits, m \in 0..MaxMisses, s \in 0..MaxStray,
          p \in 0..MaxPlain : df = SearchFrame(h, m, s, p)
    /\ pc = "call"
    /\ ret = NoCall
    /\ files = NoFiles
    /\ tables = NoTables

CallSearchStats ==
    /\ pc = "call"
    /\ ret' = compute_search_stats(df)
    /\ pc' = "returned"
    /\ UNCHANGED <<df, files, tables>>

NextSearch == CallSearchStats

SpecSearch == InitSearch /\ [][NextSearch]_vars

----------------------------------------------------------------------------
(* Claims about compute_search_stats *)

\* C1: search_rate is unknown exactly when n_stops < 50 and otherwise
\* n_searches / n_stops; hit_rate is unknown exactly when n_searches < 5 and
\* otherwise n_hits / n_searches (49 stops unknown, 50 a value; 4 searches
\* unknown, 5 a value; 60 stops, 6 searches, 3 hits give 1/10 and 1/2).
C1_SuppressionThresholds ==
    pc = "returned" =>
        /\ ret.kind = "Series"
        /\ (ret.search_rate = None) <=> (NRows(df) < 50)
        /\ NRows(df) >= 50 =>
               RatEq(ret.search_rate,
                     Float(SumColumn(df, "search_conducted"), NRows(df)))
        /\ (ret.hit_rate = None) <=> (SumColumn(df, "search_conducted") < 5)
        /\ SumColumn(df, "search_conducted") >= 5 =>
               RatEq(ret.hit_rate,
                     Float(SumColumn(df, "contraband_found"),
                           SumColumn(df, "search_conducted")))
        /\ NRows(df) = 49 => ret.search_rate = None
        /\ NRows(df) = 50 => IsFloat(ret.search_rate)
        /\ SumColumn(df, "search_conducted") = 4 => ret.hit_rate = None
        /\ SumColumn(df, "search_conducted") = 5 => IsFloat(ret.hit_rate)
        /\ df = SearchFrame(3, 3, 0, 54) =>
               /\ RatEq(ret.search_rate, Float(1, 10))
               /\ RatEq(ret.hit_rate, Float(1, 2))

\* a call on exactly 50 stops with 4 searches: a search_rate, no hit_rate
C1_Witness ==
    /\ pc = "returned"
    /\ ret.kind = "Series"
    /\ ret.n_stops = 50
    /\ ret.n_searches = 4
    /\ IsFloat(ret.search_rate)
    /\ ret.hit_rate = None

\* C2: the reported counts satisfy n_hits <= n_searches <= n_stops, n_hits
\* counting contraband only for stops in which a search was conducted.
C2_CountsOrdered ==
    pc = "returned" =>
        /\ ret.kind = "Series"
        /\ ret.n_hits <= ret.n_searches
        /\ ret.n_searches <= ret.n_stops

\* C19: compute_search_stats never divides by zero, for an empty partition
\* and a partition with no searches included: each division is reached only
\* with a denominator of at least 50 (n_stops) or at least 5 (n_searches).
C19_NoDivisionByZero ==
    pc = "returned" =>
        /\ ret.kind = "Series"
        /\ IsFloat(ret.search_rate) => ret.search_rate.den >= 50
        /\ IsFloat(ret.hit_rate) => ret.hit_rate.den >= 5

\* the call on the empty partition has returned, with neither rate computed
C19_Witness ==
    /\ pc = "returned"
    /\ df = <<>>
    /\ ret.kind = "Series"
    /\ ret.n_stops = 0
    /\ ret.search_rate = None
    /\ ret.hit_rate = None

\* C20: the two suppressions are independent: with n_stops < 50 and
\* n_searches >= 5 search_rate is unknown and hit_rate is n_hits/n_searches;
\* with n_stops >= 50 and n_searches < 5 search_rate is n_searches/n_stops
\* and hit_rate is unknown; the three counts are reported in every case.
C20_IndependentSuppressions ==
    pc = "returned" =>
        /\ ret.kind = "Series"
        /\ ret.n_stops = NRows(df)
        /\ ret.n_searches = SumColumn(df, "search_conducted")
        /\ ret.n_hits = SumColumn(df, "contraband_found")
        /\ (NRows(df) < 50 /\ SumColumn(df, "search_conducted") >= 5) =>
               /\ ret.search_rate = None
               /\ RatEq(ret.hit_rate, Float(ret.n_hits, ret.n_searches))
        /\ (NRows(df) >= 50 /\ SumColumn(df, "search_conducted") < 5) =>
               /\ RatEq(ret.search_rate, Float(ret.n_searches, ret.n_stops))
               /\ ret.hit_rate = None

\* a returned call on fewer than 50 stops with at least 5 searches
C20_Witness ==
    /\ pc = "returned"
    /\ ret.kind = "Series"
    /\ ret.n_stops < 50
    /\ ret.n_searches >= 5
    /\ ret.search_rate = None
    /\ IsFloat(ret.hit_rate)

----------------------------------------------------------------------------
(* compute_outcome_stats *)

WrittenWarning == <<"Written", "Warning">>

Citation == <<"Citation">>

ArrestForViolation == <<"Arrest", "for", "Violation">>

VerbalWarning == <<"Verbal", "Warning">>

ArrestForViolationOther == <<"Arrest", "for", "Violation", "(Other)">>

\* text p is a prefix of text s
StartsWith(s, p) == Len(p) <= Len(s) /\ SubSeq(s, 1, Len(p)) = p

\* len(df[df['stop_outcome'].str.startswith(value)])
CountPrefix(d, value) ==
    NRows(SelectSeq(d, LAMBDA b : StartsWith(b.row.stop_outcome, value)))

compute_outcome_stats_prefix(d) ==
    LET n_total == NRows(d)
        n_warnings == CountPrefix(d, WrittenWarning)
        n_citations == CountPrefix(d, Citation)
        n_arrests == CountPrefix(d, ArrestForViolation)
        citations_per_warning == TrueDiv(n_citations, n_warnings)
        arrest_rate == TrueDiv(n_arrests, n_total)
    IN  IF citations_per_warning.kind = "raise" THEN citations_per_warning
        ELSE IF arrest_rate.kind = "raise" THEN arrest_rate
        ELSE [kind |-> "Series", n_total |-> n_total,
              n_warnings |-> n_warnings, n_citations |-> n_citations,
              n_arrests |-> n_arrests,
              citations_per_warning |-> citations_per_warning,
              arrest_rate |-> arrest_rate]

compute_outcome_stats_swapped(d) ==
    LET n_total == NRows(d)
        n_warnings == NRows(WhereEq(d, "stop_outcome", WrittenWarning))
        n_citations == NRows(WhereEq(d, "stop_outcome", Citation))
        n_arrests == NRows(WhereEq(d, "stop_outcome", ArrestForViolation))
        citations_per_warning == TrueDiv(n_warnings, n_citations)
        arrest_rate == TrueDiv(n_arrests, n_total)
    IN  IF citations_per_warning.kind = "raise" THEN citations_per_warning
        ELSE IF arrest_rate.kind = "raise" THEN arrest_rate
        ELSE [kind |-> "Series", n_total |-> n_total,
              n_warnings |-> n_warnings, n_citations |-> n_citations,
              n_arrests |-> n_arrests,
              citations_per_warning |-> citations_per_warning,
              arrest_rate |-> arrest_rate]

\* The two divisions are on Python ints: the first with a zero divisor
\* raises ZeroDivisionError and nothing is returned.
compute_outcome_stats(d) ==
    LET n_total == NRows(d)
        n_warnings == NRows(WhereEq(d, "stop_outcome", WrittenWarning))
        n_citations == NRows(WhereEq(d, "stop_outcome", Citation))
        n_arrests == NRows(WhereEq(d, "stop_outcome", ArrestForViolation))
        citations_per_warning == TrueDiv(n_citations, n_warnings)
        arrest_rate == TrueDiv(n_arrests, n_total)
    IN  IF citations_per_warning.kind = "raise" THEN citations_per_warning
        ELSE IF arrest_rate.kind = "raise" THEN arrest_rate
        ELSE [kind |-> "Series", n_total |-> n_total,
              n_warnings |-> n_warnings, n_citations |-> n_citations,
              n_arrests |-> n_arrests,
              citations_per_warning |-> citations_per_warning,
              arrest_rate |-> arrest_rate]

----------------------------------------------------------------------------
(* Calls of compute_outcome_stats on one DataFrame *)

OutcomeRow(o) == [Row0 EXCEPT !.stop_outcome = o]

\* w written warnings, c citations, a arrests for violation, v verbal
\* warnings, x rows whose outcome only starts with 'Arrest for Violation'
OutcomeFrame(w, c, a, v, x) ==
    Rows(OutcomeRow(WrittenWarning), w) \o Rows(OutcomeRow(Citation), c)
        \o Rows(OutcomeRow(ArrestForViolation), a)
        \o Rows(OutcomeRow(VerbalWarning), v)
        \o Rows(OutcomeRow(ArrestForViolationOther), x)

\* 100 stops: 40 warnings, 30 citations, 2 arrests, 28 of other outcomes
ExampleOutcomeFrame == OutcomeFrame(40, 30, 2, 27, 1)

InitOutcome ==
    /\ \/ \E w, c, a, v, x \in 0..MaxCount : df = OutcomeFrame(w, c, a, v, x)
       \/ df = ExampleOutcomeFrame
    /\ pc = "call"
    /\ ret = NoCall
    /\ files = NoFiles
    /\ tables = NoTables

CallOutcomeStats ==
    /\ pc = "call"
    /\ ret' = compute_outcome_stats(df)
    /\ pc' = IF ret'.kind = "raise" THEN "raised" ELSE "returned"
    /\ UNCHANGED <<df, files, tables>>

NextOutcome == CallOutcomeStats

SpecOutcome == InitOutcome /\ [][NextOutcome]_vars

----------------------------------------------------------------------------
(* Claims about compute_outcome_stats *)

RECURSIVE CountOutcome(_, _)
\* the number of rows of d whose stop_outcome is exactly the text o
CountOutcome(d, o) ==
    IF d = <<>> THEN 0
    ELSE (IF Head(d).row.stop_outcome = o THEN Head(d).n ELSE 0)
             + CountOutcome(Tail(d), o)

CallEnded == pc \in {"returned", "raised"}

\* C3: compute_outcome_stats never ends in an error because of a zero
\* denominator: with 0 warnings citations_per_warning is returned as an
\* explicit undefined value, with 0 records arrest_rate is, and the other
\* fields are still returned.
C3_ZeroDenominatorUndefined ==
    CallEnded =>
        /\ ret.kind = "Series"
        /\ CountOutcome(df, WrittenWarning) = 0 =>
               ret.citations_per_warning = None
        /\ NRows(df) = 0 => ret.arrest_rate = None
        /\ ret.n_total = NRows(df)

\* C8: n_total is the number of records, and n_warnings, n_citations and
\* n_arrests are the numbers of records whose stop_outcome is exactly
\* 'Written Warning', 'Citation' and 'Arrest for Violation' (never a prefix
\* match), so n_warnings + n_citations + n_arrests <= n_total.
C8_ExactOutcomeCounts ==
    pc = "returned" =>
        /\ ret.n_total = NRows(df)
        /\ ret.n_warnings = CountOutcome(df, WrittenWarning)
        /\ ret.n_citations = CountOutcome(df, Citation)
        /\ ret.n_arrests = CountOutcome(df, ArrestForViolation)
        /\ ret.n_warnings + ret.n_citations + ret.n_arrests <= ret.n_total

\* a returned call on a frame that holds a verbal warning and an outcome
\* that only starts with 'Arrest for Violation'
C8_Witness ==
    /\ pc = "returned"
    /\ CountOutcome(df, VerbalWarning) > 0
    /\ CountOutcome(df, ArrestForViolationOther) > 0
    /\ ret.n_arrests > 0
    /\ ret.n_warnings + ret.n_citations + ret.n_arrests < ret.n_total

\* C9: where compute_outcome_stats returns, citations_per_warning is
\* n_citations / n_warnings and arrest_rate is n_arrests / n_total as exact
\* ratios; 100 stops with 40 warnings, 30 citations and 2 arrests give 3/4
\* and 2/100.
C9_ExactRatios ==
    pc = "returned" =>
        /\ RatEq(ret.citations_per_warning,
                 Float(CountOutcome(df, Citation),
                       CountOutcome(df, WrittenWarning)))
        /\ RatEq(ret.arrest_rate,
                 Float(CountOutcome(df, ArrestForViolation), NRows(df)))
        /\ df = ExampleOutcomeFrame =>
               /\ ret.n_total = 100
               /\ RatEq(ret.citations_per_warning, Float(3, 4))
               /\ RatEq(ret.arrest_rate, Float(2, 100))

\* the call on the 100-stop example has returned
C9_Witness ==
    /\ pc = "returned"
    /\ df = ExampleOutcomeFrame
    /\ ret.n_warnings = 40
    /\ ret.n_citations = 30
    /\ ret.n_arrests = 2

\* C10: for every partition the returned arrest_rate lies in [0,1], and
\* citations_per_warning is >= 0 or undefined, undefined exactly when
\* n_warnings = 0.
C10_RatesInRange ==
    CallEnded =>
        /\ ret.kind = "Series"
        /\ IsFloat(ret.arrest_rate)
        /\ 0 <= ret.arrest_rate.num
        /\ ret.arrest_rate.num <= ret.arrest_rate.den
        /\ (ret.citations_per_warning = None)
               <=> (CountOutcome(df, WrittenWarning) = 0)
        /\ IsFloat(ret.citations_per_warning) =>
               /\ ret.citations_per_warning.num >= 0
               /\ ret.citations_per_warning.den > 0

----------------------------------------------------------------------------
(* The group-by driver: df.groupby(keys).apply(f) *)

\* every value used as a group key, each column's values in the order
\* groupby sorts them: texts in Python's string order, the age intervals of
\* pd.cut from the lowest up
Lexicon ==
    <<"A", "Asian", "B", "Black", "C", "D", "DUI", "F", "False", "Hispanic",
      "M", "Other", "Other (non-mapped)", "Speeding", "True", "White",
      "(15, 20]", "(20, 25]", "(25, 30]", "(30, 35]", "(35, 40]",
      "(40, 45]", "(45, 50]", "(50, 55]", "(55, 60]", "(60, 65]">>

\* the place of a key component in the sort order
Rank(v) == CHOOSE i \in 1..Len(Lexicon) : Lexicon[i] = v

RECURSIVE KeyLess(_, _)
\* tuple a sorts before tuple b
KeyLess(a, b) ==
    IF a = <<>> \/ b = <<>> THEN a = <<>> /\ b # <<>>
    ELSE IF Rank(Head(a)) # Rank(Head(b)) THEN Rank(Head(a)) < Rank(Head(b))
    ELSE KeyLess(Tail(a), Tail(b))

RECURSIVE SortKeys(_)
\* the keys of the set S as a sorted sequence (groupby's sort=True)
SortKeys(S) ==
    IF S = {} THEN <<>>
    ELSE LET least == CHOOSE k \in S : \A o \in S \ {k} : KeyLess(k, o)
         IN  <<least>> \o SortKeys(S \ {least})

\* a key with a missing component (NaN): groupby leaves such rows out
NaN == "NaN"

HasNaN(k) == \E i \in DOMAIN k : k[i] = NaN

\* the key of row r for the columns listed in by
KeyOf(r, by) == [i \in DOMAIN by |-> r[by[i]]]

\* df.groupby(by): one group per distinct key among the rows, keys sorted
GroupBy(d, by) ==
    LET keys == {KeyOf(d[i].row, by) : i \in DOMAIN d}
        sorted == SortKeys({k \in keys : ~HasNaN(k)})
    IN  [i \in DOMAIN sorted |->
            [key |-> sorted[i],
             frame |-> SelectSeq(d, LAMBDA b : KeyOf(b.row, by) = sorted[i])]]

\* .apply(compute_search_stats) on the groups: the table of the results
ApplySearchStats(groups) ==
    [kind |-> "DataFrame",
     rows |-> [i \in DOMAIN groups |->
                  [key |-> groups[i].key,
                   value |-> compute_search_stats(groups[i].frame)]]]

\* .apply(compute_outcome_stats) on the groups: the table of the results,
\* or the exception of the first group on which the function raises
ApplyOutcomeStats(groups) ==
    LET values == [i \in DOMAIN groups |->
                      compute_outcome_stats(groups[i].frame)]
    IN  IF \E i \in DOMAIN values : values[i].kind = "raise"
        THEN values[CHOOSE i \in DOMAIN values :
                       /\ values[i].kind = "raise"
                       /\ \A j \in 1..(i - 1) : values[j].kind # "raise"]
        ELSE [kind |-> "DataFrame",
              rows |-> [i \in DOMAIN groups |->
                           [key |-> groups[i].key, value |-> values[i]]]]

\* df.groupby(['county_fips','driver_race']).apply(compute_search_stats)
SearchStatsByCountyRace(d) ==
    ApplySearchStats(GroupBy(d, <<"county_fips", "driver_race">>)).rows

----------------------------------------------------------------------------
(* generate_comparison_scatter *)

\* .reset_index().dropna(): the rows of the table with no missing cell
DropNa(table) ==
    SelectSeq(table, LAMBDA t : /\ t.value.search_rate # None
                                /\ t.value.hit_rate # None)

\* .pivot(index='county_fips', columns='driver_race', values=field): one
\* row per county and one column per race left in the table; a cell with
\* no row in the table is missing
Pivot(table, field) ==
    LET index == {table[i].key[1] : i \in DOMAIN table}
        columns == {table[i].key[2] : i \in DOMAIN table}
    IN  [index |-> index,
         columns |-> columns,
         cell |-> [c \in index, r \in columns |->
                     IF \E i \in DOMAIN table : table[i].key = <<c, r>>
                     THEN LET i == CHOOSE i \in DOMAIN table :
                                       table[i].key = <<c, r>>
                          IN  table[i].value[field]
                     ELSE None]]

ScatterAll(pv, x, y) ==
    {[county |-> c, x |-> pv.cell[c, x], y |-> pv.cell[c, y]] : c \in pv.index}

\* .plot.scatter(x=x, y=y): one point per row of the pivot whose x and y are
\* both numbers; a point with a missing coordinate is not drawn
ScatterPoints(pv, x, y) ==
    {[county |-> c, x |-> pv.cell[c, x], y |-> pv.cell[c, y]] :
        c \in {c \in pv.index : /\ pv.cell[c, x] # None
                                 /\ pv.cell[c, y] # None}}

generate_comparison_scatter(d, race, field) ==
    LET race_location_agg == DropNa(SearchStatsByCountyRace(d))
        pv == Pivot(race_location_agg, field)
    IN  IF "White" \notin pv.columns \/ race \notin pv.columns
        THEN Raise("KeyError")
        ELSE [kind |-> "Axes", race |-> race, field |-> field,
              points |-> ScatterPoints(pv, "White", race)]

----------------------------------------------------------------------------
(* Calls of generate_comparison_scatter on one DataFrame *)

Counties == {"A", "B", "C"}

DataRaces == {"White", "Black"}

ComparisonRaces == {"Black", "Hispanic", "Asian"}

Fields == {"search_rate", "hit_rate"}

\* what one (county, race) group holds: no stops, too few stops, too few
\* searches, or enough of both
GroupShapes ==
    {[stops |-> 0, searches |-> 0, hits |-> 0],
     [stops |-> 49, searches |-> 5, hits |-> 2],
     [stops |-> 50, searches |-> 4, hits |-> 1],
     [stops |-> 50, searches |-> 5, hits |-> 3]}

GroupRow(c, r, sc, cf) ==
    [Row0 EXCEPT !.county_fips = c, !.driver_race = r,
                 !.search_conducted = sc, !.contraband_found = cf]

GroupFrame(c, r, g) ==
    Rows(GroupRow(c, r, TRUE, TRUE), g.hits)
        \o Rows(GroupRow(c, r, TRUE, FALSE), g.searches - g.hits)
        \o Rows(GroupRow(c, r, FALSE, FALSE), g.stops - g.searches)

RECURSIVE FrameOf(_, _)
\* the rows of the groups listed in order, each with the shape shape[group]
FrameOf(order, shape) ==
    IF order = <<>> THEN <<>>
    ELSE GroupFrame(Head(order)[1], Head(order)[2], shape[Head(order)])
             \o FrameOf(Tail(order), shape)

GroupOrder ==
    <<<<"A", "White">>, <<"A", "Black">>, <<"B", "White">>, <<"B", "Black">>,
      <<"C", "White">>, <<"C", "Black">>>>

Enough == [stops |-> 50, searches |-> 5, hits |-> 3]

\* White drivers with known statistics in counties A, B, C and Black
\* drivers in counties B, C, D
ExampleScatterFrame ==
    FrameOf(<<<<"A", "White">>, <<"B", "White">>, <<"B", "Black">>,
              <<"C", "White">>, <<"C", "Black">>, <<"D", "Black">>>>,
            [g \in {"A", "B", "C", "D"} \X DataRaces |-> Enough])

InitScatter ==
    /\ \/ \E shape \in [Counties \X DataRaces -> GroupShapes] :
             df = FrameOf(GroupOrder, shape)
       \/ df = ExampleScatterFrame
    /\ pc = "call"
    /\ ret = NoCall
    /\ files = NoFiles
    /\ tables = NoTables

CallComparisonScatter ==
    /\ pc = "call"
    /\ \E race \in ComparisonRaces, field \in Fields :
          ret' = generate_comparison_scatter(df, race, field)
    /\ pc' = IF ret'.kind = "raise" THEN "raised" ELSE "returned"
    /\ UNCHANGED <<df, files, tables>>

NextScatter == CallComparisonScatter

SpecScatter == InitScatter /\ [][NextScatter]_vars

----------------------------------------------------------------------------
(* Claims about generate_comparison_scatter *)

\* the rows of d for one county and one race
GroupOf(d, c, r) ==
    SelectSeq(d, LAMBDA b : b.row.county_fips = c /\ b.row.driver_race = r)

\* the statistic of the (county, race) partition of d is known: at least 50
\* stops for search_rate, at least 5 searches for hit_rate
KnownStat(d, c, r, field) ==
    IF field = "search_rate" THEN NRows(GroupOf(d, c, r)) >= 50
    ELSE SumColumn(GroupOf(d, c, r), "search_conducted") >= 5

AllCounties == {"A", "B", "C", "D"}

\* the counties of a race's result table: those where both of its
\* statistics are known
Listed(d, r) ==
    {c \in AllCounties :
        KnownStat(d, c, r, "search_rate") /\ KnownStat(d, c, r, "hit_rate")}

PointCounties == {p.county : p \in ret.points}

C6_DroppedOnlyIfChosenUnknown ==
    pc = "returned" =>
        \A c \in AllCounties :
            (KnownStat(df, c, "White", ret.field)
                /\ KnownStat(df, c, ret.race, ret.field))
            => c \in PointCounties

----------------------------------------------------------------------------
(* The partitionings of the script *)

\* np.arange(15, 70, 5)
Bins == <<15, 20, 25, 30, 35, 40, 45, 50, 55, 60, 65>>

AgeLabels ==
    <<"(15, 20]", "(20, 25]", "(25, 30]", "(30, 35]", "(35, 40]",
      "(40, 45]", "(45, 50]", "(50, 55]", "(55, 60]", "(60, 65]">>

cut_left_closed(age) ==
    IF \E i \in 1..(Len(Bins) - 1) : Bins[i] <= age /\ age < Bins[i + 1]
    THEN AgeLabels[CHOOSE i \in 1..(Len(Bins) - 1) :
                       Bins[i] <= age /\ age < Bins[i + 1]]
    ELSE NaN

\* pd.cut(age, Bins): the interval (Bins[i], Bins[i+1]] that holds the age,
\* missing for an age outside every interval
cut(age) ==
    IF \E i \in 1..(Len(Bins) - 1) : Bins[i] < age /\ age <= Bins[i + 1]
    THEN AgeLabels[CHOOSE i \in 1..(Len(Bins) - 1) :
                       Bins[i] < age /\ age <= Bins[i + 1]]
    ELSE NaN

\* groupby on the categorical age_groups: one group per interval, in the
\* order of the intervals, with the rows whose age falls in it
GroupByAge(d) ==
    [i \in DOMAIN AgeLabels |->
        [key |-> <<AgeLabels[i]>>,
         frame |-> SelectSeq(d, LAMBDA b : cut(b.row.driver_age) = AgeLabels[i])]]

\* what a groupby(...).apply(...) leaves: the key used, the groups and the
\* table (or exception) of the apply
Grouped(by, groups, applied) ==
    [kind |-> "groupby", by |-> by, groups |-> groups, applied |-> applied]

PersonRow(g, r, v, c, a) ==
    [Row0 EXCEPT !.driver_gender = g, !.driver_race = r, !.violation = v,
                 !.county_fips = c, !.driver_age = a,
                 !.stop_outcome = WrittenWarning]

\* the rows the partitioned frames are made of
PersonRows ==
    {PersonRow(g, r, vc[1], vc[2], a) :
        g \in {"F", "M"}, r \in {"White", "Black"},
        vc \in {<<"Speeding", "A">>, <<"DUI", "B">>}, a \in {15, 20, 66}}

RECURSIVE Frames(_)
\* every frame of at most k single rows
Frames(k) ==
    IF k = 0 THEN {<<>>}
    ELSE Frames(k - 1)
            \cup {<<Block(r, 1)>> \o f : r \in PersonRows,
                      f \in {f \in Frames(k - 1) : Len(f) = k - 1}}

InitGroupBy ==
    /\ df \in Frames(MaxRows)
    /\ pc = "call"
    /\ ret = NoCall
    /\ files = NoFiles
    /\ tables = NoTables

Done(r) ==
    /\ ret' = r
    /\ pc' = "returned"
    /\ UNCHANGED <<df, files, tables>>

\* df_vt.groupby('driver_gender').apply(compute_search_stats)
GroupByGender ==
    /\ pc = "call"
    /\ LET g == GroupBy(df, <<"driver_gender">>)
       IN  Done(Grouped("driver_gender", g, ApplySearchStats(g)))

\* df_vt.groupby('driver_race').apply(compute_search_stats)
GroupByRace ==
    /\ pc = "call"
    /\ LET g == GroupBy(df, <<"driver_race">>)
       IN  Done(Grouped("driver_race", g, ApplySearchStats(g)))

\* df_vt.groupby(['driver_race','violation']).apply(compute_outcome_stats)
GroupByRaceViolation ==
    /\ pc = "call"
    /\ LET g == GroupBy(df, <<"driver_race", "violation">>)
       IN  Done(Grouped("driver_race,violation", g, ApplyOutcomeStats(g)))

\* df.groupby(['county_fips','driver_race']).apply(compute_search_stats)
GroupByCountyRace ==
    /\ pc = "call"
    /\ LET g == GroupBy(df, <<"county_fips", "driver_race">>)
       IN  Done(Grouped("county_fips,driver_race", g, ApplySearchStats(g)))

\* df_vt.groupby(age_groups).apply(compute_search_stats)
GroupByAgeGroups ==
    /\ pc = "call"
    /\ LET g == GroupByAge(df)
       IN  Done(Grouped("age_groups", g, ApplySearchStats(g)))

NextGroupBy ==
    \/ GroupByGender
    \/ GroupByRace
    \/ GroupByRaceViolation
    \/ GroupByCountyRace
    \/ GroupByAgeGroups

SpecGroupBy == InitGroupBy /\ [][NextGroupBy]_vars

----------------------------------------------------------------------------
(* Claims about the partitionings *)

RECURSIVE SumSizes(_)
\* the number of rows in all the groups together
SumSizes(groups) ==
    IF groups = <<>> THEN 0
    ELSE NRows(Head(groups).frame) + SumSizes(Tail(groups))

\* the number of groups that hold rows equal to row r
GroupsHolding(groups, r) ==
    Cardinality({i \in DOMAIN groups :
                    \E j \in DOMAIN groups[i].frame :
                        groups[i].frame[j].row = r})

InBuckets(r) == 15 < r.driver_age /\ r.driver_age <= 65

\* C7 as stated: for each group-by key of the script, the age buckets
\* included, every record falls in exactly one partition and the partition
\* sizes sum to the dataset size.
C7_EveryKeyExhaustive ==
    pc = "returned" =>
        /\ SumSizes(ret.groups) = NRows(df)
        /\ \A j \in DOMAIN df : GroupsHolding(ret.groups, df[j].row) = 1

\* C7 as amended: the four categorical keys partition the dataset
\* exhaustively and without overlap; the age buckets hold, each in exactly
\* one bucket, exactly the records with 15 < driver_age <= 65, and a record
\* of any other age is in no bucket.
C7_ExhaustiveButAgeBuckets ==
    pc = "returned" =>
        IF ret.by = "age_groups"
        THEN /\ SumSizes(ret.groups)
                   = NRows(SelectSeq(df, LAMBDA b : InBuckets(b.row)))
             /\ \A j \in DOMAIN df :
                    GroupsHolding(ret.groups, df[j].row)
                        = IF InBuckets(df[j].row) THEN 1 ELSE 0
        ELSE /\ SumSizes(ret.groups) = NRows(df)
             /\ \A j \in DOMAIN df :
                    GroupsHolding(ret.groups, df[j].row) = 1

\* the age buckets of a frame with a driver of 20 and a driver of 66
C7_Witness ==
    /\ pc = "returned"
    /\ ret.by = "age_groups"
    /\ \E j \in DOMAIN df : df[j].row.driver_age = 20
    /\ \E j \in DOMAIN df : df[j].row.driver_age = 66
    /\ SumSizes(ret.groups) = 1
    /\ NRows(df) = 2

----------------------------------------------------------------------------
(* generate_comparison_scatters, generate_county_search_stats_scatter *)

\* the six calls of generate_comparison_scatter, in the order made; the
\* first one that raises ends the function
ScatterCalls ==
    <<<<"Black", "search_rate">>, <<"Hispanic", "search_rate">>,
      <<"Asian", "search_rate">>, <<"Black", "hit_rate">>,
      <<"Hispanic", "hit_rate">>, <<"Asian", "hit_rate">>>>

generate_comparison_scatters(d) ==
    LET axes == [i \in DOMAIN ScatterCalls |->
                    generate_comparison_scatter(d, ScatterCalls[i][1],
                                                ScatterCalls[i][2])]
    IN  IF \E i \in DOMAIN axes : axes[i].kind = "raise"
        THEN axes[CHOOSE i \in DOMAIN axes :
                     /\ axes[i].kind = "raise"
                     /\ \A j \in 1..(i - 1) : axes[j].kind # "raise"]
        ELSE [kind |-> "Figure", axes |-> axes]

\* colors = ['orange','red','green','blue']
NColors == 4

\* one colors.pop() per race of the table: IndexError on the fifth
generate_county_search_stats_scatter(d) ==
    LET race_location_agg == SearchStatsByCountyRace(d)
        races == {race_location_agg[i].key[2] : i \in DOMAIN race_location_agg}
    IN  IF Cardinality(races) > NColors THEN Raise("IndexError")
        ELSE [kind |-> "Figure", races |-> races]

----------------------------------------------------------------------------
(* analyze_state_data and the module-level calls *)

\* the states in the order of the module-level calls
StateOrder == <<"MA", "WI", "CT", "AZ", "CO", "NC", "WA", "TX">>

States == {StateOrder[i] : i \in DOMAIN StateOrder}

\* a file pd.read_csv cannot read or parse
Unreadable == [kind |-> "unreadable"]

CsvFile(d) == [kind |-> "csv", rows |-> d]

\* fields = ['county_fips', 'driver_race', 'search_conducted',
\*           'contraband_found']
fields ==
    <<"county_fips", "driver_race", "search_conducted", "contraband_found">>

\* df.dropna(): the rows with no missing value in the columns read
dropna(d) ==
    SelectSeq(d, LAMBDA b : \A i \in DOMAIN fields : fields[i] \notin b.row.na)

CleanState_no_dropna(file) == WhereNe(file.rows, "driver_race", "Other")

\* pd.read_csv(...), dropna and the removal of the 'Other' race
CleanState(file) == WhereNe(dropna(file.rows), "driver_race", "Other")

analyze_state_data(file) ==
    IF file = Unreadable THEN Raise("IOError")
    ELSE LET d == CleanState(file)
             search_scatters == generate_comparison_scatters(d)
             county_scatter == generate_county_search_stats_scatter(d)
         IN  IF search_scatters.kind = "raise" THEN search_scatters
             ELSE IF county_scatter.kind = "raise" THEN county_scatter
             ELSE ApplySearchStats(GroupBy(d, <<"driver_race">>))

\* a state's file: every race with known statistics in county A, some rows
\* of race 'Other' and a row with no county
FullFrame ==
    FrameOf(<<<<"A", "White">>, <<"A", "Black">>, <<"A", "Hispanic">>,
              <<"A", "Asian">>>>,
            [g \in {"A"} \X {"White", "Black", "Hispanic", "Asian"}
                |-> Enough])
        \o Rows(GroupRow("A", "Other", FALSE, FALSE), 2)
        \o Rows([GroupRow("A", "White", FALSE, FALSE)
                     EXCEPT !.na = {"county_fips"}], 1)

\* a state's file with too few stops of Asian drivers in every county
FewAsianFrame ==
    FrameOf(<<<<"A", "White">>, <<"A", "Black">>, <<"A", "Hispanic">>,
              <<"A", "Asian">>>>,
            [g \in {"A"} \X {"White", "Black", "Hispanic", "Asian"}
                |-> IF g[2] = "Asian"
                    THEN [stops |-> 49, searches |-> 5, hits |-> 2]
                    ELSE Enough])

FileContents == {Unreadable, CsvFile(FullFrame), CsvFile(FewAsianFrame)}

\* the file of state s: the content, and for a readable file i further
\* stops of White drivers in county B for the i-th state, so that no two
\* states have the same records
FileOf(s, content) ==
    IF content = Unreadable THEN Unreadable
    ELSE CsvFile(content.rows
                    \o Rows(GroupRow("B", "White", FALSE, FALSE),
                            CHOOSE i \in DOMAIN StateOrder :
                                StateOrder[i] = s))

InitBatch ==
    /\ \E content \in [States -> FileContents] :
          files = [s \in States |-> FileOf(s, content[s])]
    /\ pc = StateOrder[1]
    /\ df = <<>>
    /\ ret = NoCall
    /\ tables = NoTables

\* the state whose call follows that of s, "done" after the last
Following(s) ==
    LET i == CHOOSE i \in DOMAIN StateOrder : StateOrder[i] = s
    IN  IF i = Len(StateOrder) THEN "done" ELSE StateOrder[i + 1]

\* analyze_state_data(pc) at module level: an exception it raises is caught
\* nowhere and ends the script
AnalyzeStateData_shared_frame ==
    /\ pc \in States
    /\ ret' = IF files[pc] = Unreadable THEN Raise("IOError")
              ELSE analyze_state_data(CsvFile(df \o files[pc].rows))
    /\ IF ret'.kind = "raise"
       THEN /\ pc' = "aborted"
            /\ tables' = tables
       ELSE /\ pc' = Following(pc)
            /\ tables' = (pc :> ret') @@ tables
    /\ df' = IF files[pc] = Unreadable THEN df
             ELSE CleanState(CsvFile(df \o files[pc].rows))
    /\ UNCHANGED files

AnalyzeStateData ==
    /\ pc \in States
    /\ ret' = analyze_state_data(files[pc])
    /\ IF ret'.kind = "raise"
       THEN /\ pc' = "aborted"
            /\ tables' = tables
       ELSE /\ pc' = Following(pc)
            /\ tables' = (pc :> ret') @@ tables
    /\ df' = IF files[pc] = Unreadable THEN df ELSE CleanState(files[pc])
    /\ UNCHANGED files

NextBatch == AnalyzeStateData

SpecBatch == InitBatch /\ [][NextBatch]_vars

----------------------------------------------------------------------------
(* Claims about the multi-jurisdiction run *)

\* C4: if one jurisdiction's analysis fails because its input file is
\* unreadable or malformed, the run still processes every remaining
\* jurisdiction of MA, WI, CT, AZ, CO, NC, WA, TX and produces their
\* tables: when the script has ended, every jurisdiction whose own analysis
\* does not fail has its table.
C4_BatchContinues ==
    pc \in {"done", "aborted"} =>
        \A s \in States :
            analyze_state_data(files[s]).kind # "raise"
                => s \in DOMAIN tables

----------------------------------------------------------------------------
(* Cleaning of the Vermont dataset: fillna on search_type, then dropna *)

\* df[col].fillna(value, inplace=True): a missing cell of the column gets
\* the value
fillna(d, col, value) ==
    [i \in DOMAIN d |->
        IF col \in d[i].row.na
        THEN Block([d[i].row EXCEPT ![col] = value, !.na = @ \ {col}], d[i].n)
        ELSE d[i]]

\* df.dropna(): the rows with no missing value in any column
dropna_any(d) == SelectSeq(d, LAMBDA b : b.row.na = {})

clean_drop_first(d) == fillna(dropna_any(d), "search_type", "N/A")

\* df_vt['search_type'].fillna('N/A', inplace=True)
\* df_vt.dropna(inplace=True)
clean(d) == dropna_any(fillna(d, "search_type", "N/A"))

\* a row as read from VT-clean.csv.gz: the columns listed in missing hold no
\* value; a stop with no search has no search_type
RawRow(age, missing) ==
    [Row0 EXCEPT !.driver_age = age,
                 !.search_type = IF "search_type" \in missing THEN NaN
                                 ELSE "Consent Search",
                 !.search_conducted = "search_type" \notin missing,
                 !.na = missing]

RawRows ==
    {RawRow(age, missing) :
        age \in {20, 30},
        missing \in SUBSET {"search_type", "county_fips", "stop_outcome"}}

RECURSIVE RawFrames(_)
\* every frame of at most k single rows as read
RawFrames(k) ==
    IF k = 0 THEN {<<>>}
    ELSE RawFrames(k - 1)
            \cup {<<Block(r, 1)>> \o f : r \in RawRows,
                      f \in {f \in RawFrames(k - 1) : Len(f) = k - 1}}

\* after df_vt = pd.read_csv('./data/VT-clean.csv.gz', ...)
InitClean ==
    /\ \E raw \in RawFrames(MaxRows) :
          /\ files = [s \in {"VT"} |-> CsvFile(raw)]
          /\ df = raw
    /\ pc = "clean"
    /\ ret = NoCall
    /\ tables = NoTables

CleanVt ==
    /\ pc = "clean"
    /\ df' = clean(df)
    /\ pc' = "cleaned"
    /\ UNCHANGED <<ret, files, tables>>

NextClean == CleanVt

SpecClean == InitClean /\ [][NextClean]_vars

----------------------------------------------------------------------------
(* Claims about the cleaning *)

\* every field of the row other than search_type is present
CompleteButSearchType(r) == r.na \subseteq {"search_type"}

RECURSIVE KeptRows(_)
\* the rows of the raw frame with every field other than search_type
\* present, in their order, a missing search_type replaced by 'N/A'
KeptRows(raw) ==
    IF raw = <<>> THEN <<>>
    ELSE LET b == Head(raw)
         IN  (IF ~CompleteButSearchType(b.row) THEN <<>>
              ELSE IF "search_type" \in b.row.na
              THEN <<Block([b.row EXCEPT !.search_type = "N/A", !.na = {}],
                           b.n)>>
              ELSE <<b>>) \o KeptRows(Tail(raw))

\* C11: cleaning keeps a row if and only if every field other than
\* search_type is present; a kept row whose search_type was missing carries
\* 'N/A'; after cleaning no record has a missing field; no row is dropped
\* merely because its search_type was missing.
C11_FillThenDrop ==
    pc = "cleaned" =>
        /\ df = KeptRows(files["VT"].rows)
        /\ \A i \in DOMAIN df : df[i].row.na = {}
        /\ NRows(df) = NRows(SelectSeq(files["VT"].rows,
                                LAMBDA b : CompleteButSearchType(b.row)))

\* a cleaned frame that kept a row read with no search_type and dropped a
\* row read with no county
C11_Witness ==
    /\ pc = "cleaned"
    /\ \E i \in DOMAIN files["VT"].rows :
          files["VT"].rows[i].row.na = {"search_type"}
    /\ \E i \in DOMAIN files["VT"].rows :
          "county_fips" \in files["VT"].rows[i].row.na
    /\ NRows(df) = 1
    /\ df[1].row.search_type = "N/A"

----------------------------------------------------------------------------
(* Claims about the table of analyze_state_data *)

\* the row has a value in each of the columns read and a race other than
\* 'Other'
CompleteNonOther(r) ==
    /\ r.driver_race # "Other"
    /\ \A i \in DOMAIN fields : fields[i] \notin r.na

RECURSIVE SumStops(_)
\* the sum of n_stops over the rows of a table
SumStops(rows) ==
    IF rows = <<>> THEN 0
    ELSE Head(rows).value.n_stops + SumStops(Tail(rows))

\* C12: analyze_state_data removes incomplete rows and all rows with
\* driver_race = 'Other' before any aggregation or comparison runs, and the
\* table it returns has exactly one row per remaining race value: it has no
\* 'Other' row, and the n_stops of its rows sum to the number of complete
\* non-'Other' records of that jurisdiction.
C12_TableOfCleanRecords ==
    /\ \A i \in DOMAIN df : CompleteNonOther(df[i].row)
    /\ \A s \in DOMAIN tables :
          LET kept == SelectSeq(files[s].rows,
                                LAMBDA b : CompleteNonOther(b.row))
              t == tables[s].rows
          IN  /\ \A i \in DOMAIN t : t[i].key # <<"Other">>
              /\ \A i, j \in DOMAIN t : t[i].key = t[j].key => i = j
              /\ {t[i].key[1] : i \in DOMAIN t}
                    = {kept[i].row.driver_race : i \in DOMAIN kept}
              /\ SumStops(t) = NRows(kept)

\* the table of a file that holds rows of race 'Other' and an incomplete
\* row: four rows, 201 stops
C12_Witness ==
    /\ "MA" \in DOMAIN tables
    /\ \E i \in DOMAIN files["MA"].rows :
          files["MA"].rows[i].row.driver_race = "Other"
    /\ \E i \in DOMAIN files["MA"].rows :
          files["MA"].rows[i].row.na # {}
    /\ Len(tables["MA"].rows) = 4
    /\ SumStops(tables["MA"].rows) = 201

\* the number of rows of d that are complete, of the race and hold TRUE in
\* the column (every such row for the column "any")
CountOwn(d, race, col) ==
    NRows(SelectSeq(d, LAMBDA b :
                          /\ CompleteNonOther(b.row)
                          /\ b.row.driver_race = race
                          /\ col # "any" => b.row[col]))

\* the state whose call has just returned
LastAnalyzed(s) == s \in DOMAIN tables /\ Following(s) = pc

\* C13: the table returned by analyze_state_data for a jurisdiction depends
\* only on that jurisdiction's own input records: whatever the files of the
\* jurisdictions analysed before it, every count of the table is the count
\* over the jurisdiction's own records, and the frame handed to the county
\* comparisons holds that jurisdiction's records only.
C13_OwnRecordsOnly ==
    /\ \A s \in DOMAIN tables :
          \A i \in DOMAIN tables[s].rows :
              LET t == tables[s].rows[i]
              IN  /\ t.value.n_stops
                        = CountOwn(files[s].rows, t.key[1], "any")
                  /\ t.value.n_searches
                        = CountOwn(files[s].rows, t.key[1],
                                   "search_conducted")
                  /\ t.value.n_hits
                        = CountOwn(files[s].rows, t.key[1],
                                   "contraband_found")
    /\ \A s \in States :
          LastAnalyzed(s) =>
              /\ \A i \in DOMAIN df :
                    \E j \in DOMAIN files[s].rows : df[i] = files[s].rows[j]
              /\ NRows(df) = NRows(SelectSeq(files[s].rows,
                                    LAMBDA b : CompleteNonOther(b.row)))

\* the table of the third state, returned after the tables of two states
\* with other records: 53 stops of White drivers
C13_Witness ==
    /\ {"MA", "WI", "CT"} \subseteq DOMAIN tables
    /\ LastAnalyzed("CT")
    /\ files["MA"] # files["CT"]
    /\ \E i \in DOMAIN tables["CT"].rows :
          /\ tables["CT"].rows[i].key = <<"White">>
          /\ tables["CT"].rows[i].value.n_stops = 53

----------------------------------------------------------------------------
(* Repeated calls of the two aggregation functions on one partition *)

\* a partition with w written warnings and c citations among stops with no
\* search, h searches that found contraband and m that did not
PartitionFrame(w, c, h, m) ==
    OutcomeFrame(w, c, 0, 0, 0) \o SearchFrame(h, m, 0, 0)

InitRepeat ==
    /\ \E w, c \in 0..MaxCount, h \in 0..MaxHits, m \in 0..MaxMisses :
          df = PartitionFrame(w, c, h, m)
    /\ pc = "start"
    /\ ret = NoCall
    /\ files = NoFiles
    /\ tables = NoTables

\* compute_outcome_stats(df), a first time or again on the same partition:
\* the body assigns local names only
RepeatOutcomeStats ==
    /\ pc \in {"start", "outcome", "search", "search again"}
    /\ ret' = compute_outcome_stats(df)
    /\ pc' = IF ret'.kind = "raise" THEN "raised"
             ELSE IF pc = "outcome" THEN "outcome again" ELSE "outcome"
    /\ UNCHANGED <<df, files, tables>>

RepeatSearchStats_in_place ==
    /\ pc \in {"start", "search", "outcome", "outcome again"}
    /\ ret' = compute_search_stats(df)
    /\ pc' = IF pc = "search" THEN "search again" ELSE "search"
    /\ df' = WhereEq(df, "search_conducted", TRUE)
    /\ UNCHANGED <<files, tables>>

\* compute_search_stats(df), a first time or again on the same partition:
\* the body assigns local names only
RepeatSearchStats ==
    /\ pc \in {"start", "search", "outcome", "outcome again"}
    /\ ret' = compute_search_stats(df)
    /\ pc' = IF pc = "search" THEN "search again" ELSE "search"
    /\ UNCHANGED <<df, files, tables>>

NextRepeat == RepeatOutcomeStats \/ RepeatSearchStats

SpecRepeat == InitRepeat /\ [][NextRepeat]_vars

----------------------------------------------------------------------------
(* The statements of the Vermont analysis that follow the cleaning *)

\* the statements on df_vt after the cleaning, by source line
ScriptOrder ==
    <<"226", "285", "297", "313", "325", "341", "351", "354", "367", "384",
      "403", "478", "490", "504", "514", "586", "621">>

\* the statement that follows the one at line l, "end" after the last
After(l) ==
    LET i == CHOOSE i \in DOMAIN ScriptOrder : ScriptOrder[i] = l
    IN  IF i = Len(ScriptOrder) THEN "end" ELSE ScriptOrder[i + 1]

\* df['is_white'] = df['driver_race'] == 'White': every row gets the new
\* column (written "True" / "False", as the group keys show it)
add_is_white(d) ==
    [i \in DOMAIN d |->
        Block(("is_white" :> (IF d[i].row.driver_race = "White"
                              THEN "True" ELSE "False")) @@ d[i].row,
              d[i].n)]

\* ['Other (non-mapped)', 'DUI']
Excluded == {"Other (non-mapped)", "DUI"}

\* df[~df['violation'].isin(['Other (non-mapped)', 'DUI'])]
without_excluded(d) == SelectSeq(d, LAMBDA b : b.row.violation \notin Excluded)

ScriptRow(race, violation, outcome, sc, cf) ==
    [Row0 EXCEPT !.driver_race = race, !.violation = violation,
                 !.stop_outcome = outcome, !.search_conducted = sc,
                 !.contraband_found = cf]

\* stops of one race for speeding in county A, all with a written warning:
\* 5 searches, 3 of them with contraband found
RaceFrame(race, stops) ==
    Rows(ScriptRow(race, "Speeding", WrittenWarning, TRUE, TRUE), 3)
        \o Rows(ScriptRow(race, "Speeding", WrittenWarning, TRUE, FALSE), 2)
        \o Rows(ScriptRow(race, "Speeding", WrittenWarning, FALSE, FALSE),
                stops - 5)

Extras == {"other", "dui", "non-mapped", "no warning", "few asian"}

\* a cleaned Vermont dataset: 50 stops of each of the four races, and the
\* extras chosen: two stops of race 'Other', a DUI stop with a search, a
\* non-mapped violation with a search, a DUI stop of a Hispanic driver
\* ending in a citation, one stop fewer of Asian drivers
VtFrame(extras) ==
    RaceFrame("White", 50)
        \o (IF "other" \in extras
            THEN Rows(ScriptRow("Other", "Speeding", WrittenWarning,
                                FALSE, FALSE), 2)
            ELSE <<>>)
        \o RaceFrame("Black", 50)
        \o (IF "dui" \in extras
            THEN Rows(ScriptRow("White", "DUI", WrittenWarning, TRUE, TRUE), 1)
            ELSE <<>>)
        \o RaceFrame("Hispanic", 50)
        \o (IF "non-mapped" \in extras
            THEN Rows(ScriptRow("Black", "Other (non-mapped)",
                                WrittenWarning, TRUE, FALSE), 1)
            ELSE <<>>)
        \o (IF "no warning" \in extras
            THEN Rows(ScriptRow("Hispanic", "DUI", Citation, FALSE, FALSE), 1)
            ELSE <<>>)
        \o RaceFrame("Asian", IF "few asian" \in extras THEN 49 ELSE 50)

\* after the cleaning of lines 127-130
InitScript ==
    /\ \E extras \in SUBSET Extras :
          /\ files = [s \in {"VT"} |-> CsvFile(VtFrame(extras))]
          /\ df = clean(VtFrame(extras))
    /\ pc = ScriptOrder[1]
    /\ ret = NoCall
    /\ tables = NoTables

\* the cell at line pc shows r, or ends the script with the exception r
Shows(r) ==
    /\ ret' = r
    /\ tables' = (pc :> r) @@ tables
    /\ pc' = IF r.kind = "raise" THEN "aborted" ELSE After(pc)
    /\ UNCHANGED <<df, files>>

\* df_vt = df_vt[df_vt['driver_race'] != 'Other']
DropOtherRace ==
    /\ pc = "226"
    /\ df' = WhereNe(df, "driver_race", "Other")
    /\ pc' = After(pc)
    /\ UNCHANGED <<ret, files, tables>>

\* compute_outcome_stats(df_vt)
OutcomeStatsAll ==
    /\ pc = "285"
    /\ Shows(compute_outcome_stats(df))

\* df_vt.groupby('driver_gender').apply(compute_outcome_stats)
OutcomeStatsByGender ==
    /\ pc = "297"
    /\ Shows(ApplyOutcomeStats(GroupBy(df, <<"driver_gender">>)))

\* df_vt.groupby('driver_race').apply(compute_outcome_stats)
OutcomeStatsByRace ==
    /\ pc = "313"
    /\ Shows(ApplyOutcomeStats(GroupBy(df, <<"driver_race">>)))

\* race_agg = df_vt.groupby(['driver_race']).apply(compute_outcome_stats)
OutcomeStatsRaceAgg ==
    /\ pc = "325"
    /\ Shows(ApplyOutcomeStats(GroupBy(df, <<"driver_race">>)))

\* df_vt.groupby(['driver_race','violation']).apply(compute_outcome_stats)
OutcomeStatsByRaceViolation ==
    /\ pc = "341"
    /\ Shows(ApplyOutcomeStats(GroupBy(df, <<"driver_race", "violation">>)))

\* df_vt['is_white'] = df_vt['driver_race'] == 'White'
AddIsWhite ==
    /\ pc = "351"
    /\ df' = add_is_white(df)
    /\ pc' = After(pc)
    /\ UNCHANGED <<ret, files, tables>>

FilterViolations_rebind ==
    /\ pc = "354"
    /\ df' = without_excluded(df)
    /\ tables' = ("df_vt_filtered"
                     :> [kind |-> "frame", rows |-> without_excluded(df)])
                    @@ tables
    /\ pc' = After(pc)
    /\ UNCHANGED <<ret, files>>

\* df_vt_filtered = df_vt[~df_vt['violation'].isin([...])]: a new frame
\* under a new name
FilterViolations ==
    /\ pc = "354"
    /\ tables' = ("df_vt_filtered"
                     :> [kind |-> "frame", rows |-> without_excluded(df)])
                    @@ tables
    /\ pc' = After(pc)
    /\ UNCHANGED <<df, ret, files>>

\* df_vt_filtered.groupby(['is_white','violation'])
\*     .apply(compute_outcome_stats)
FilteredByIsWhiteViolation ==
    /\ pc = "367"
    /\ Shows(ApplyOutcomeStats(GroupBy(tables["df_vt_filtered"].rows,
                                       <<"is_white", "violation">>)))

\* df_vt_filtered.groupby(['violation','driver_race'])
\*     .apply(compute_outcome_stats).unstack(): the table before unstack
FilteredByViolationRace ==
    /\ pc = "384"
    /\ Shows(ApplyOutcomeStats(GroupBy(tables["df_vt_filtered"].rows,
                                       <<"violation", "driver_race">>)))

\* df_vt_filtered.groupby(['violation','driver_gender'])
\*     .apply(compute_outcome_stats).unstack(): the table before unstack
FilteredByViolationGender ==
    /\ pc = "403"
    /\ Shows(ApplyOutcomeStats(GroupBy(tables["df_vt_filtered"].rows,
                                       <<"violation", "driver_gender">>)))

\* compute_search_stats(df_vt)
SearchStatsAll ==
    /\ pc = "478"
    /\ Shows(compute_search_stats(df))

\* df_vt.groupby('driver_gender').apply(compute_search_stats)
SearchStatsByGender ==
    /\ pc = "490"
    /\ Shows(ApplySearchStats(GroupBy(df, <<"driver_gender">>)))

\* age_groups = pd.cut(df_vt["driver_age"], np.arange(15, 70, 5))
\* df_vt.groupby(age_groups).apply(compute_search_stats)
SearchStatsByAge ==
    /\ pc = "504"
    /\ Shows(ApplySearchStats(GroupByAge(df)))

\* df_vt.groupby('driver_race').apply(compute_search_stats)
SearchStatsByRace ==
    /\ pc = "514"
    /\ Shows(ApplySearchStats(GroupBy(df, <<"driver_race">>)))

\* fig = generate_comparison_scatters(df_vt, 'VT')
ComparisonScatters ==
    /\ pc = "586"
    /\ Shows(generate_comparison_scatters(df))

\* fig = generate_county_search_stats_scatter(df_vt, "VT")
CountySearchStatsScatter ==
    /\ pc = "621"
    /\ Shows(generate_county_search_stats_scatter(df))

NextScript ==
    \/ DropOtherRace
    \/ OutcomeStatsAll
    \/ OutcomeStatsByGender
    \/ OutcomeStatsByRace
    \/ OutcomeStatsRaceAgg
    \/ OutcomeStatsByRaceViolation
    \/ AddIsWhite
    \/ FilterViolations
    \/ FilteredByIsWhiteViolation
    \/ FilteredByViolationRace
    \/ FilteredByViolationGender
    \/ SearchStatsAll
    \/ SearchStatsByGender
    \/ SearchStatsByAge
    \/ SearchStatsByRace
    \/ ComparisonScatters
    \/ CountySearchStatsScatter

SpecScript == InitScript /\ [][NextScript]_vars

----------------------------------------------------------------------------
(* Claims about the statements of the Vermont analysis *)

\* C15: once the dataset has been loaded and cleaned, no later analysis
\* step of the script changes it: no step after cleaning adds, removes or
\* alters a record or a field of the dataset that the subsequent
\* aggregations read.
C15_DatasetNeverChanges == [][df' = df]_vars

\* the cleaned records of the file whose race is not 'Other'
Analysed == WhereNe(clean(files["VT"].rows), "driver_race", "Other")

\* C17: excluding the violation categories 'Other (non-mapped)' and 'DUI'
\* produces a separate filtered dataset and leaves the full dataset's set
\* of records unchanged: every search-statistics step that runs afterwards
\* (whole dataset, by gender, by age, by race, by county and race) counts
\* the stops of all violation categories, the two excluded ones included.
C17_FullDatasetKept ==
    /\ "df_vt_filtered" \in DOMAIN tables =>
          /\ \A i \in DOMAIN tables["df_vt_filtered"].rows :
                tables["df_vt_filtered"].rows[i].row.violation \notin Excluded
          /\ NRows(tables["df_vt_filtered"].rows)
                = NRows(Analysed)
                    - NRows(WhereEq(Analysed, "violation", "DUI"))
                    - NRows(WhereEq(Analysed, "violation",
                                    "Other (non-mapped)"))
          /\ NRows(df) = NRows(Analysed)
          /\ \A v \in Excluded :
                NRows(WhereEq(df, "violation", v))
                    = NRows(WhereEq(Analysed, "violation", v))
    /\ "478" \in DOMAIN tables =>
          /\ tables["478"].n_stops = NRows(Analysed)
          /\ tables["478"].n_searches
                = SumColumn(Analysed, "search_conducted")
    /\ \A l \in {"490", "504", "514"} \cap DOMAIN tables :
          SumStops(tables[l].rows) = NRows(Analysed)
    /\ "514" \in DOMAIN tables =>
          \A i \in DOMAIN tables["514"].rows :
              tables["514"].rows[i].value.n_stops
                  = NRows(WhereEq(Analysed, "driver_race",
                                  tables["514"].rows[i].key[1]))

\* the script has ended on a dataset with a DUI stop and a non-mapped
\* violation: 200 stops in the filtered dataset, 202 stops and 22 searches
\* in the search statistics
C17_Witness ==
    /\ pc = "end"
    /\ \A v \in Excluded : \E i \in DOMAIN df : df[i].row.violation = v
    /\ NRows(tables["df_vt_filtered"].rows) = 200
    /\ tables["478"].n_stops = 202
    /\ tables["478"].n_searches = 22
    /\ SumStops(tables["514"].rows) = 202

----------------------------------------------------------------------------
(* Claims about the order of the rows of a grouped table *)

RECURSIVE FirstSeen(_, _, _)
\* the distinct keys of the rows of d in the order in which they are first
\* encountered, after those of seen
FirstSeen(d, by, seen) ==
    IF d = <<>> THEN seen
    ELSE LET k == KeyOf(Head(d).row, by)
         IN  FirstSeen(Tail(d), by,
                       IF \E i \in DOMAIN seen : seen[i] = k THEN seen
                       ELSE Append(seen, k))

\* the columns of the key of a groupby
ByColumns(by) ==
    IF by = "driver_gender" THEN <<"driver_gender">>
    ELSE IF by = "driver_race" THEN <<"driver_race">>
    ELSE IF by = "driver_race,violation" THEN <<"driver_race", "violation">>
    ELSE <<"county_fips", "driver_race">>

\* C16: the rows of a table produced by groupby(key).apply(aggregator), as
\* the script calls it, appear in the order in which the key's distinct
\* values are first encountered in the dataset, not in sorted key order.
C16_DiscoveryOrder ==
    (pc = "returned" /\ ret.kind = "groupby" /\ ret.by # "age_groups") =>
        [i \in DOMAIN ret.applied.rows |-> ret.applied.rows[i].key]
            = FirstSeen(df, ByColumns(ret.by), <<>>)

----------------------------------------------------------------------------
(* Claims about the completion of generate_comparison_scatters *)

\* C18: generate_comparison_scatters completes without error for every
\* cleaned dataset, including one in which a comparison race or the
\* baseline race White has no county with known statistics: the alignment
\* for that race is then empty rather than a failure.
C18_ScattersComplete ==
    "586" \in DOMAIN tables =>
        /\ tables["586"].kind = "Figure"
        /\ pc # "aborted"

====
